---------------------------- MODULE Spec2Model ----------------------------
(***************************************************************************)
(* Model of the LS timetable scheduler (src/scheduler): the CSV loader of  *)
(* workshops, the Schedule engine and its assign / unassign / query        *)
(* operations.                                                             *)
(*                                                                         *)
(* Representation:                                                         *)
(*   - a Python str is a sequence of one-character strings;                *)
(*   - Optional[x] is <<>> for None and <<x>> for a value x;               *)
(*   - a Python dict is a sequence of [key, value] records in insertion    *)
(*     order (dicts iterate in insertion order);                           *)
(*   - a Python set is a set.                                              *)
(***************************************************************************)
EXTENDS Integers, Sequences, FiniteSets, TLC

\* ---------------------------------------------------------------- bounds
MaxWorkshops == 2

\* ----------------------------------------------------------- Optional[x]
None == <<>>
Some(x) == <<x>>
IsNone(o) == o = <<>>
Value(o) == o[1]

\* ------------------------------------------------------------------ dict
DictHas(d, k) == \E i \in 1..Len(d) : d[i].key = k
DictIndex(d, k) == CHOOSE i \in 1..Len(d) : d[i].key = k
DictGet(d, k) == d[DictIndex(d, k)].value
DictSet(d, k, v) ==
    IF DictHas(d, k)
    THEN [d EXCEPT ![DictIndex(d, k)] = [key |-> k, value |-> v]]
    ELSE Append(d, [key |-> k, value |-> v])
DictKeys(d) == {d[i].key : i \in 1..Len(d)}
DictValues(d) == [i \in 1..Len(d) |-> d[i].value]

\* ------------------------------------------------------------------- str
Whitespace == {" ", "\t", "\n", "\r"}
DigitChars == <<"0", "1", "2", "3", "4", "5", "6", "7", "8", "9">>
IsDigit(c) == \E i \in 1..10 : DigitChars[i] = c
DigitValue(c) == (CHOOSE i \in 1..10 : DigitChars[i] = c) - 1

RECURSIVE LStrip(_)
LStrip(s) ==
    IF s # <<>> /\ Head(s) \in Whitespace THEN LStrip(Tail(s)) ELSE s

RECURSIVE RStrip(_)
RStrip(s) ==
    IF s # <<>> /\ s[Len(s)] \in Whitespace
    THEN RStrip(SubSeq(s, 1, Len(s) - 1))
    ELSE s

\* str.strip()
Strip(s) == RStrip(LStrip(s))

RECURSIVE DigitsValue(_)
DigitsValue(s) ==
    IF s = <<>> THEN 0
    ELSE 10 * DigitsValue(SubSeq(s, 1, Len(s) - 1)) + DigitValue(s[Len(s)])

\* int(s) for a str s: surrounding whitespace is ignored, then an optional
\* sign and at least one decimal digit; anything else raises ValueError.
ParseInt(s) ==
    LET t == Strip(s)
        signed == t # <<>> /\ Head(t) \in {"+", "-"}
        body == IF signed THEN Tail(t) ELSE t
        ok == body # <<>> /\ \A i \in 1..Len(body) : IsDigit(body[i])
    IN IF ~ok THEN [raised |-> TRUE, value |-> 0]
       ELSE [raised |-> FALSE,
             value |-> IF signed /\ Head(t) = "-"
                       THEN 0 - DigitsValue(body)
                       ELSE DigitsValue(body)]

\* ------------------------------------------------------------- timeslots
DEFAULT_TIMESLOTS ==
    << <<"8", ":", "4", "5", "-", "9", ":", "3", "0">>,
       <<"9", ":", "3", "0", "-", "1", "0", ":", "1", "5">>,
       <<"1", "0", ":", "1", "5", "-", "1", "1", ":", "0", "0">>,
       <<"1", "1", ":", "3", "0", "-", "1", "2", ":", "1", "5">>,
       <<"1", "2", ":", "1", "5", "-", "1", "3", ":", "0", "0">> >>

SeqToSet(s) == {s[i] : i \in 1..Len(s)}

\* --------------------------------------------------------------- loader
\* One row of tallers.csv -> Workshop, or the DataLoaderError it raises.
LoadWorkshopRow(row, valid_timeslots) ==
    LET raw_timeslot == Strip(row.timeslot)
        cs == IF row.capacity_students # <<>>
              THEN ParseInt(row.capacity_students)
              ELSE [raised |-> FALSE, value |-> 0]
        ca == IF row.capacity_adults # <<>>
              THEN ParseInt(row.capacity_adults)
              ELSE [raised |-> FALSE, value |-> 0]
    IN IF raw_timeslot \notin valid_timeslots THEN [raised |-> TRUE]
       ELSE IF cs.raised THEN [raised |-> TRUE]
       ELSE IF ca.raised THEN [raised |-> TRUE]
       ELSE [raised |-> FALSE,
             workshop |->
               [identifier |-> Strip(row.id),
                name |-> Strip(row.name),
                space |-> Strip(row.space),
                timeslot |-> raw_timeslot,
                capacity_students |->
                    IF row.capacity_students # <<>> THEN Some(cs.value) ELSE None,
                capacity_adults |->
                    IF row.capacity_adults # <<>> THEN Some(ca.value) ELSE None,
                notes |-> IF row.notes # <<>> THEN Some(row.notes) ELSE None]]

RECURSIVE load_workshops(_, _)
load_workshops(rows, valid_timeslots) ==
    IF rows = <<>> THEN [raised |-> FALSE, workshops |-> <<>>]
    ELSE LET r == LoadWorkshopRow(Head(rows), valid_timeslots)
             rest == load_workshops(Tail(rows), valid_timeslots)
         IN IF r.raised \/ rest.raised THEN [raised |-> TRUE, workshops |-> <<>>]
            ELSE [raised |-> FALSE, workshops |-> <<r.workshop>> \o rest.workshops]

\* ------------------------------------------------------ Schedule.__init__
RECURSIVE InitWorkshopsById(_, _)
InitWorkshopsById(workshops, d) ==
    IF workshops = <<>> THEN d
    ELSE InitWorkshopsById(Tail(workshops),
                           DictSet(d, Head(workshops).identifier, Head(workshops)))

\* defaultdict(dict).__getitem__: a missing key is inserted with an empty dict
Touch(a, timeslot) ==
    IF DictHas(a, timeslot) THEN a
    ELSE Append(a, [key |-> timeslot, value |-> <<>>])

Assignment(workshop) == [workshop |-> workshop, students |-> {}, adults |-> {}]

RECURSIVE InitAssignments(_, _)
InitAssignments(workshops, a) ==
    IF workshops = <<>> THEN a
    ELSE LET w == Head(workshops)
             a1 == Touch(a, w.timeslot)
             inner == DictSet(DictGet(a1, w.timeslot), w.identifier, Assignment(w))
         IN InitAssignments(Tail(workshops), DictSet(a1, w.timeslot, inner))


\* ------------------------------------------------------------- Schedule
VARIABLES
    workshops_by_id,  \* Schedule._workshops_by_id: dict id -> Workshop
    assignments,      \* Schedule._assignments: defaultdict timeslot -> dict id -> Assignment
    last,             \* the last call made on the Schedule and how it ended
    prev,             \* Schedule._assignments as it was when that call started
    round_trip,       \* set when the last call is an unassign that directly
                      \* follows the assign of the same person to the same
                      \* workshop: the bucket as it was before that assign
    out               \* what the last view, form or loader call was given
                      \* and what it returned

vars == <<workshops_by_id, assignments, last, prev, round_trip, out>>

\* Schedule calls return nothing worth keeping beyond last.result
NoOutput == [op |-> "none"]

\* ----------------------------------------------------- views of the map
HasEntry(a, timeslot, workshop_id) ==
    DictHas(a, timeslot) /\ DictHas(DictGet(a, timeslot), workshop_id)
AssignmentAt(a, timeslot, workshop_id) == DictGet(DictGet(a, timeslot), workshop_id)
StudentsOf(a, timeslot, workshop_id) == AssignmentAt(a, timeslot, workshop_id).students
AdultsOf(a, timeslot, workshop_id) == AssignmentAt(a, timeslot, workshop_id).adults
\* every (timeslot, workshop id) pair that keys an Assignment
Entries(a) ==
    UNION {{<<a[i].key, a[i].value[j].key>> : j \in 1..Len(a[i].value)} : i \in 1..Len(a)}
\* the student set and the adult set of every Assignment
Membership(a) ==
    {<<e, StudentsOf(a, e[1], e[2]), AdultsOf(a, e[1], e[2])>> : e \in Entries(a)}
\* the workshop every Assignment is bound to
Binding(a) == {<<e, AssignmentAt(a, e[1], e[2]).workshop>> : e \in Entries(a)}

\* self._assignments[timeslot].get(workshop_id), on a map where the
\* timeslot key already exists
Lookup(a, timeslot, workshop_id) ==
    LET inner == DictGet(a, timeslot)
    IN IF DictHas(inner, workshop_id) THEN Some(DictGet(inner, workshop_id)) ELSE None

\* the write-back replacing the timeslot's whole map by the one entry
SetAssignment_drop_others(a, timeslot, workshop_id, assignment) ==
    DictSet(a, timeslot, DictSet(<<>>, workshop_id, assignment))

\* assignment.students / assignment.adults rebound inside the map
SetAssignment(a, timeslot, workshop_id, assignment) ==
    DictSet(a, timeslot, DictSet(DictGet(a, timeslot), workshop_id, assignment))

\* _check_capacity with the comparison off by one
check_capacity_off_by_one(assignment, for_students, quantity) ==
    LET limit == IF for_students
                 THEN assignment.workshop.capacity_students
                 ELSE assignment.workshop.capacity_adults
    IN ~IsNone(limit) /\ quantity >= Value(limit)

\* TRUE when _check_capacity raises ValueError
check_capacity(assignment, for_students, quantity) ==
    LET limit == IF for_students
                 THEN assignment.workshop.capacity_students
                 ELSE assignment.workshop.capacity_adults
    IN ~IsNone(limit) /\ quantity > Value(limit)

\* _ensure_unique_timeslot scanning the bucket of the other kind
ensure_unique_timeslot_wrong_bucket(a, person_id, timeslot, kind) ==
    LET inner == DictGet(a, timeslot)
    IN \E i \in 1..Len(inner) :
          LET bucket == IF kind = "student"
                        THEN inner[i].value.adults
                        ELSE inner[i].value.students
          IN person_id \in bucket

\* TRUE when _ensure_unique_timeslot raises ValueError
ensure_unique_timeslot(a, person_id, timeslot, kind) ==
    LET inner == DictGet(a, timeslot)
    IN \E i \in 1..Len(inner) :
          LET bucket == IF kind = "student"
                        THEN inner[i].value.students
                        ELSE inner[i].value.adults
          IN person_id \in bucket

\* Outcomes of a call.  KeyError is the spec's NotFoundError; the ValueError
\* of _ensure_unique_timeslot is its ConflictError and the ValueError of
\* _check_capacity its CapacityError.
NotFoundError == "KeyError"
ConflictError == "ValueError: already assigned in this timeslot"
CapacityError == "ValueError: workshop limit reached"

\* assign_student with the capacity check moved before the uniqueness check
AssignStudent_capacity_first(a, student, timeslot, workshop_id) ==
    LET a1 == Touch(a, timeslot)
        found == Lookup(a1, timeslot, workshop_id)
    IN IF IsNone(found)
       THEN [result |-> NotFoundError, assignments |-> a1]
       ELSE IF check_capacity(Value(found), TRUE, Cardinality(Value(found).students) + 1)
       THEN [result |-> CapacityError, assignments |-> a1]
       ELSE IF ensure_unique_timeslot(a1, student, timeslot, "student")
       THEN [result |-> ConflictError, assignments |-> a1]
       ELSE [result |-> "ok",
             assignments |->
                SetAssignment(a1, timeslot, workshop_id,
                    [Value(found) EXCEPT !.students = @ \cup {student}])]

\* assign_student treating a student already in the target workshop as done
AssignStudent_idempotent(a, student, timeslot, workshop_id) ==
    LET a1 == Touch(a, timeslot)
        found == Lookup(a1, timeslot, workshop_id)
    IN IF IsNone(found)
       THEN [result |-> NotFoundError, assignments |-> a1]
       ELSE IF student \in Value(found).students
       THEN [result |-> "ok", assignments |-> a1]
       ELSE IF ensure_unique_timeslot(a1, student, timeslot, "student")
       THEN [result |-> ConflictError, assignments |-> a1]
       ELSE IF check_capacity(Value(found), TRUE, Cardinality(Value(found).students) + 1)
       THEN [result |-> CapacityError, assignments |-> a1]
       ELSE [result |-> "ok",
             assignments |->
                SetAssignment(a1, timeslot, workshop_id,
                    [Value(found) EXCEPT !.students = @ \cup {student}])]

AssignStudent(a, student, timeslot, workshop_id) ==
    LET a1 == Touch(a, timeslot)
        found == Lookup(a1, timeslot, workshop_id)
    IN IF IsNone(found)
       THEN [result |-> NotFoundError, assignments |-> a1]
       ELSE IF ensure_unique_timeslot(a1, student, timeslot, "student")
       THEN [result |-> ConflictError, assignments |-> a1]
       ELSE IF check_capacity(Value(found), TRUE, Cardinality(Value(found).students) + 1)
       THEN [result |-> CapacityError, assignments |-> a1]
       ELSE [result |-> "ok",
             assignments |->
                SetAssignment(a1, timeslot, workshop_id,
                    [Value(found) EXCEPT !.students = @ \cup {student}])]

\* assign_adult adding the adult before the capacity check
AssignAdult_partial_write(a, adult, timeslot, workshop_id) ==
    LET a1 == Touch(a, timeslot)
        found == Lookup(a1, timeslot, workshop_id)
    IN IF IsNone(found)
       THEN [result |-> NotFoundError, assignments |-> a1]
       ELSE IF ensure_unique_timeslot(a1, adult, timeslot, "adult")
       THEN [result |-> ConflictError, assignments |-> a1]
       ELSE LET a2 == SetAssignment(a1, timeslot, workshop_id,
                          [Value(found) EXCEPT !.adults = @ \cup {adult}])
            IN IF check_capacity(Value(found), FALSE, Cardinality(Value(found).adults) + 1)
               THEN [result |-> CapacityError, assignments |-> a2]
               ELSE [result |-> "ok", assignments |-> a2]

AssignAdult(a, adult, timeslot, workshop_id) ==
    LET a1 == Touch(a, timeslot)
        found == Lookup(a1, timeslot, workshop_id)
    IN IF IsNone(found)
       THEN [result |-> NotFoundError, assignments |-> a1]
       ELSE IF ensure_unique_timeslot(a1, adult, timeslot, "adult")
       THEN [result |-> ConflictError, assignments |-> a1]
       ELSE IF check_capacity(Value(found), FALSE, Cardinality(Value(found).adults) + 1)
       THEN [result |-> CapacityError, assignments |-> a1]
       ELSE [result |-> "ok",
             assignments |->
                SetAssignment(a1, timeslot, workshop_id,
                    [Value(found) EXCEPT !.adults = @ \cup {adult}])]

\* unassign_student emptying the bucket instead of discarding one identifier
UnassignStudent_clear(a, student, timeslot, workshop_id) ==
    LET a1 == Touch(a, timeslot)
        found == Lookup(a1, timeslot, workshop_id)
    IN IF IsNone(found)
       THEN [result |-> "ok", assignments |-> a1]
       ELSE [result |-> "ok",
             assignments |->
                SetAssignment(a1, timeslot, workshop_id,
                    [Value(found) EXCEPT !.students = {}])]

UnassignStudent(a, student, timeslot, workshop_id) ==
    LET a1 == Touch(a, timeslot)
        found == Lookup(a1, timeslot, workshop_id)
    IN IF IsNone(found)
       THEN [result |-> "ok", assignments |-> a1]
       ELSE [result |-> "ok",
             assignments |->
                SetAssignment(a1, timeslot, workshop_id,
                    [Value(found) EXCEPT !.students = @ \ {student}])]

\* unassign_adult resolving its target with get_assignment, which raises
UnassignAdult_strict(a, adult, timeslot, workshop_id) ==
    LET a1 == Touch(a, timeslot)
        found == Lookup(a1, timeslot, workshop_id)
    IN IF IsNone(found)
       THEN [result |-> NotFoundError, assignments |-> a1]
       ELSE [result |-> "ok",
             assignments |->
                SetAssignment(a1, timeslot, workshop_id,
                    [Value(found) EXCEPT !.adults = @ \ {adult}])]

UnassignAdult(a, adult, timeslot, workshop_id) ==
    LET a1 == Touch(a, timeslot)
        found == Lookup(a1, timeslot, workshop_id)
    IN IF IsNone(found)
       THEN [result |-> "ok", assignments |-> a1]
       ELSE [result |-> "ok",
             assignments |->
                SetAssignment(a1, timeslot, workshop_id,
                    [Value(found) EXCEPT !.adults = @ \ {adult}])]

\* ---------------------------------------------------------------- inputs
PersonIds == {<<"p", "1">>, <<"p", "2">>}
WorkshopIds == {<<"w", "1">>, <<"w", "2">>}
Timeslots == {DEFAULT_TIMESLOTS[1], DEFAULT_TIMESLOTS[3]}

Row(id, timeslot, capacity_students, capacity_adults) ==
    [id |-> id, name |-> <<"T">> \o id, space |-> <<"A">>, timeslot |-> timeslot,
     capacity_students |-> capacity_students,
     capacity_adults |-> capacity_adults, notes |-> <<>>]

\* The rows a tallers.csv is made of: a workshop with both limits set to 1,
\* one in the same timeslot with both cells blank, and one in another
\* timeslot that repeats the id of the first, with the student cell blank
\* and a negative adult limit.
Rows ==
    { Row(<<"w", "1">>, DEFAULT_TIMESLOTS[1], <<"1">>, <<"1">>),
      Row(<<"w", "2">>, DEFAULT_TIMESLOTS[1], <<>>, <<>>),
      Row(<<"w", "1">>, DEFAULT_TIMESLOTS[3], <<>>, <<"-", "1">>) }

RowLists == UNION {[1..n -> Rows] : n \in 0..MaxWorkshops}

NoRoundTrip == [active |-> FALSE, before |-> {}, assign_result |-> ""]

\* The round trip an unassign call completes, if it completes one.
RoundTrip(assign_op, person, timeslot, workshop_id) ==
    IF /\ last.op = assign_op
       /\ last.person = person
       /\ last.timeslot = timeslot
       /\ last.workshop_id = workshop_id
       /\ HasEntry(prev, timeslot, workshop_id)
    THEN [active |-> TRUE,
          before |-> IF assign_op = "assign_student"
                     THEN StudentsOf(prev, timeslot, workshop_id)
                     ELSE AdultsOf(prev, timeslot, workshop_id),
          assign_result |-> last.result]
    ELSE NoRoundTrip

Call(op, person, timeslot, workshop_id, result) ==
    [op |-> op, person |-> person, timeslot |-> timeslot,
     workshop_id |-> workshop_id, result |-> result]

\* --------------------------------------------------------------- actions
\* app.py: workshops = load_workshops(...); schedule = Schedule(workshops)
Init ==
    \E rows \in RowLists :
        LET loaded == load_workshops(rows, SeqToSet(DEFAULT_TIMESLOTS))
        IN /\ ~loaded.raised
           /\ workshops_by_id = InitWorkshopsById(loaded.workshops, <<>>)
           /\ assignments = InitAssignments(loaded.workshops, <<>>)
           /\ last = Call("__init__", <<>>, <<>>, <<>>, "ok")
           /\ prev = <<>>
           /\ round_trip = NoRoundTrip
           /\ out = NoOutput

assign_student(student, timeslot, workshop_id) ==
    LET r == AssignStudent(assignments, student, timeslot, workshop_id)
    IN /\ assignments' = r.assignments
       /\ last' = Call("assign_student", student, timeslot, workshop_id, r.result)
       /\ prev' = assignments
       /\ round_trip' = NoRoundTrip
       /\ out' = NoOutput
       /\ UNCHANGED workshops_by_id

assign_adult(adult, timeslot, workshop_id) ==
    LET r == AssignAdult(assignments, adult, timeslot, workshop_id)
    IN /\ assignments' = r.assignments
       /\ last' = Call("assign_adult", adult, timeslot, workshop_id, r.result)
       /\ prev' = assignments
       /\ round_trip' = NoRoundTrip
       /\ out' = NoOutput
       /\ UNCHANGED workshops_by_id

unassign_student(student, timeslot, workshop_id) ==
    LET r == UnassignStudent(assignments, student, timeslot, workshop_id)
    IN /\ assignments' = r.assignments
       /\ last' = Call("unassign_student", student, timeslot, workshop_id, r.result)
       /\ prev' = assignments
       /\ round_trip' = RoundTrip("assign_student", student, timeslot, workshop_id)
       /\ out' = NoOutput
       /\ UNCHANGED workshops_by_id

unassign_adult(adult, timeslot, workshop_id) ==
    LET r == UnassignAdult(assignments, adult, timeslot, workshop_id)
    IN /\ assignments' = r.assignments
       /\ last' = Call("unassign_adult", adult, timeslot, workshop_id, r.result)
       /\ prev' = assignments
       /\ round_trip' = RoundTrip("assign_adult", adult, timeslot, workshop_id)
       /\ out' = NoOutput
       /\ UNCHANGED workshops_by_id

\* Schedule.workshops
workshops ==
    /\ last' = Call("workshops", <<>>, <<>>, <<>>, "ok")
    /\ prev' = assignments
    /\ round_trip' = NoRoundTrip
    /\ out' = NoOutput
    /\ UNCHANGED <<workshops_by_id, assignments>>

assignments_for_timeslot(timeslot) ==
    /\ assignments' = Touch(assignments, timeslot)
    /\ last' = Call("assignments_for_timeslot", <<>>, timeslot, <<>>, "ok")
    /\ prev' = assignments
    /\ round_trip' = NoRoundTrip
    /\ out' = NoOutput
    /\ UNCHANGED workshops_by_id

get_assignment(timeslot, workshop_id) ==
    LET a1 == Touch(assignments, timeslot)
    IN /\ assignments' = a1
       /\ last' = Call("get_assignment", <<>>, timeslot, workshop_id,
                       IF IsNone(Lookup(a1, timeslot, workshop_id))
                       THEN NotFoundError ELSE "ok")
       /\ prev' = assignments
       /\ round_trip' = NoRoundTrip
       /\ out' = NoOutput
       /\ UNCHANGED workshops_by_id

\* is_student_assigned scanning the Assignments of every timeslot
IsStudentAssigned_any_timeslot(a, student_id, timeslot) ==
    \E j \in 1..Len(a) :
        LET inner == a[j].value
        IN \E i \in 1..Len(inner) : student_id \in inner[i].value.students

\* any(student_id in assignment.students for assignment in ...values())
IsStudentAssigned(a, student_id, timeslot) ==
    LET inner == DictGet(a, timeslot)
    IN \E i \in 1..Len(inner) : student_id \in inner[i].value.students

IsAdultAssigned(a, adult_id, timeslot) ==
    LET inner == DictGet(a, timeslot)
    IN \E i \in 1..Len(inner) : adult_id \in inner[i].value.adults

is_student_assigned(student_id, timeslot) ==
    LET a1 == Touch(assignments, timeslot)
    IN /\ assignments' = a1
       /\ last' = Call("is_student_assigned", student_id, timeslot, <<>>,
                       IF IsStudentAssigned(a1, student_id, timeslot)
                       THEN "True" ELSE "False")
       /\ prev' = assignments
       /\ round_trip' = NoRoundTrip
       /\ out' = NoOutput
       /\ UNCHANGED workshops_by_id

is_adult_assigned(adult_id, timeslot) ==
    LET a1 == Touch(assignments, timeslot)
    IN /\ assignments' = a1
       /\ last' = Call("is_adult_assigned", adult_id, timeslot, <<>>,
                       IF IsAdultAssigned(a1, adult_id, timeslot)
                       THEN "True" ELSE "False")
       /\ prev' = assignments
       /\ round_trip' = NoRoundTrip
       /\ out' = NoOutput
       /\ UNCHANGED workshops_by_id

Next ==
    \/ \E p \in PersonIds, t \in Timeslots, w \in WorkshopIds : assign_student(p, t, w)
    \/ \E p \in PersonIds, t \in Timeslots, w \in WorkshopIds : assign_adult(p, t, w)
    \/ \E p \in PersonIds, t \in Timeslots, w \in WorkshopIds : unassign_student(p, t, w)
    \/ \E p \in PersonIds, t \in Timeslots, w \in WorkshopIds : unassign_adult(p, t, w)
    \/ workshops
    \/ \E t \in Timeslots : assignments_for_timeslot(t)
    \/ \E t \in Timeslots, w \in WorkshopIds : get_assignment(t, w)
    \/ \E p \in PersonIds, t \in Timeslots : is_student_assigned(p, t)
    \/ \E p \in PersonIds, t \in Timeslots : is_adult_assigned(p, t)

Spec == Init /\ [][Next]_vars


\* ------------------------------------------------------------------ text
\* The characters the model's strings are made of, in code point order.
CharOrder ==
    <<"\n", " ", "(", ")", ",", "-", "0", "1", "2", "3", "4", "5", "6", "7",
      "8", "9", ":", "A", "B", "C", "D", "M", "N", "T", "Z", "a", "c", "d",
      "e", "i", "l", "m", "n", "o", "p", "s", "t", "u", "w">>
Ord(c) == CHOOSE i \in 1..Len(CharOrder) : CharOrder[i] = c

\* a < b on Python str
RECURSIVE StrLess(_, _)
StrLess(a, b) ==
    IF b = <<>> THEN FALSE
    ELSE IF a = <<>> THEN TRUE
    ELSE IF Head(a) = Head(b) THEN StrLess(Tail(a), Tail(b))
    ELSE Ord(Head(a)) < Ord(Head(b))

\* sorted(ids) on a set of str
RECURSIVE SortedIds(_)
SortedIds(ids) ==
    IF ids = {} THEN <<>>
    ELSE LET least == CHOOSE x \in ids : \A y \in ids \ {x} : StrLess(x, y)
         IN <<least>> \o SortedIds(ids \ {least})

\* sep.join(parts)
RECURSIVE Join(_, _)
Join(sep, parts) ==
    IF parts = <<>> THEN <<>>
    ELSE IF Len(parts) = 1 THEN parts[1]
    ELSE parts[1] \o sep \o Join(sep, Tail(parts))

\* ------------------------------------------------------------ directories
Student(identifier, name, stage, group) ==
    [identifier |-> identifier, name |-> name, stage |-> stage, group |-> group]
Adult(identifier, name, role) ==
    [identifier |-> identifier, name |-> name, role |-> role]

\* {student.identifier: student for student in ...}
RECURSIVE Directory(_, _)
Directory(people, d) ==
    IF people = <<>> THEN d
    ELSE Directory(Tail(people), DictSet(d, Head(people).identifier, Head(people)))

\* --------------------------------------------------------------- as_rows
\* directory[identifier].name for identifier in sorted(ids): the subscript
\* raises KeyError on an identifier the directory does not hold
ResolveNames(directory, ids) ==
    LET sorted == SortedIds(ids)
    IN IF \E i \in 1..Len(sorted) : ~DictHas(directory, sorted[i])
       THEN [raised |-> TRUE, names |-> <<>>]
       ELSE [raised |-> FALSE,
             names |-> [i \in 1..Len(sorted) |-> DictGet(directory, sorted[i]).name]]

\* the (timeslot, assignment) pairs in the order the two loops visit them
RECURSIVE Flatten(_)
Flatten(a) ==
    IF a = <<>> THEN <<>>
    ELSE [i \in 1..Len(Head(a).value) |->
             [timeslot |-> Head(a).key, assignment |-> Head(a).value[i].value]]
         \o Flatten(Tail(a))

\* the dict appended for one Assignment
AsRow(timeslot, assignment, students, adults) ==
    LET s == ResolveNames(students, assignment.students)
        d == ResolveNames(adults, assignment.adults)
    IN [raised |-> s.raised \/ d.raised,
        row |-> [Franja |-> timeslot,
                 Espai |-> assignment.workshop.space,
                 Taller |-> assignment.workshop.name,
                 Alumnes |-> Join(<<",", " ">>, s.names),
                 Adults |-> Join(<<",", " ">>, d.names),
                 Notes |-> IF IsNone(assignment.workshop.notes)
                           THEN <<>> ELSE Value(assignment.workshop.notes)]]

\* (row["Franja"], row["Espai"]) < (other["Franja"], other["Espai"])
RowKeyLess(row, other) ==
    \/ StrLess(row.Franja, other.Franja)
    \/ row.Franja = other.Franja /\ StrLess(row.Espai, other.Espai)

\* the rows left in the order the loops appended them
InsertRow_unsorted(sorted, row) == Append(sorted, row)

\* list.sort is stable: a row goes behind the rows whose key is not greater
RECURSIVE InsertRow(_, _)
InsertRow(sorted, row) ==
    IF sorted = <<>> THEN <<row>>
    ELSE IF RowKeyLess(row, Head(sorted)) THEN <<row>> \o sorted
    ELSE <<Head(sorted)>> \o InsertRow(Tail(sorted), row)

RECURSIVE SortRows(_, _)
SortRows(rows, sorted) ==
    IF rows = <<>> THEN sorted
    ELSE SortRows(Tail(rows), InsertRow(sorted, Head(rows)))

AsRows(a, students, adults) ==
    LET flat == Flatten(a)
        made == [i \in 1..Len(flat) |->
                    AsRow(flat[i].timeslot, flat[i].assignment, students, adults)]
    IN IF \E i \in 1..Len(made) : made[i].raised
       THEN [raised |-> TRUE, rows |-> <<>>]
       ELSE [raised |-> FALSE,
             rows |-> SortRows([i \in 1..Len(made) |-> made[i].row], <<>>)]

\* ------------------------------------------------------------- app views
\* order.get(slot, len(order)) with order = {timeslot: index}
TimeslotIndex(slot) ==
    IF \E i \in 1..Len(DEFAULT_TIMESLOTS) : DEFAULT_TIMESLOTS[i] = slot
    THEN (CHOOSE i \in 1..Len(DEFAULT_TIMESLOTS) : DEFAULT_TIMESLOTS[i] = slot) - 1
    ELSE Len(DEFAULT_TIMESLOTS)

\* sorted(timeslots, key=lambda slot: (order.get(slot, len(order)), slot))
RECURSIVE sort_timeslots(_)
sort_timeslots(timeslots) ==
    IF timeslots = {} THEN <<>>
    ELSE LET least == CHOOSE x \in timeslots : \A y \in timeslots \ {x} :
                          \/ TimeslotIndex(x) < TimeslotIndex(y)
                          \/ TimeslotIndex(x) = TimeslotIndex(y) /\ StrLess(x, y)
         IN <<least>> \o sort_timeslots(timeslots \ {least})

\* sort_timeslots({workshop.timeslot for workshop in schedule.workshops.values()})
TimeslotOptions(catalog) ==
    sort_timeslots({catalog[i].value.timeslot : i \in 1..Len(catalog)})

\* schedule.assignments_for_timeslot(timeslot) for each listed timeslot
RECURSIVE TouchAll(_, _)
TouchAll(a, timeslots) ==
    IF timeslots = <<>> THEN a
    ELSE TouchAll(Touch(a, Head(timeslots)), Tail(timeslots))

\* if space not in ordered: ordered.append(space), over a list of spaces
RECURSIVE AppendNew(_, _)
AppendNew(ordered, spaces) ==
    IF spaces = <<>> THEN ordered
    ELSE AppendNew(IF Head(spaces) \in SeqToSet(ordered)
                   THEN ordered ELSE Append(ordered, Head(spaces)),
                   Tail(spaces))

RECURSIVE SpacesByTimeslot(_, _, _)
SpacesByTimeslot(a, timeslot_order, ordered) ==
    IF timeslot_order = <<>> THEN ordered
    ELSE LET inner == DictGet(a, Head(timeslot_order))
         IN SpacesByTimeslot(a, Tail(timeslot_order),
                AppendNew(ordered,
                    [i \in 1..Len(inner) |-> inner[i].value.workshop.space]))

derive_space_order(catalog, a, timeslot_order) ==
    AppendNew(SpacesByTimeslot(a, timeslot_order, <<>>),
              [i \in 1..Len(catalog) |-> catalog[i].value.space])

\* str.capitalize on the letters the stages are written with
LowerCase == <<"a", "c", "d", "e", "i", "l", "m", "n", "o", "p", "s", "t", "u", "w">>
UpperCase == <<"A", "C", "D", "E", "I", "L", "M", "N", "O", "P", "S", "T", "U", "W">>
Upper(c) ==
    IF \E i \in 1..Len(LowerCase) : LowerCase[i] = c
    THEN UpperCase[CHOOSE i \in 1..Len(LowerCase) : LowerCase[i] = c] ELSE c
Lower(c) ==
    IF \E i \in 1..Len(UpperCase) : UpperCase[i] = c
    THEN LowerCase[CHOOSE i \in 1..Len(UpperCase) : UpperCase[i] = c] ELSE c
Capitalize(s) ==
    [i \in 1..Len(s) |-> IF i = 1 THEN Upper(s[i]) ELSE Lower(s[i])]

\* [directory[id].name for id in sorted(ids) if id in directory]
KnownNames(directory, ids) ==
    LET known == SortedIds({id \in ids : DictHas(directory, id)})
    IN [i \in 1..Len(known) |-> DictGet(directory, known[i]).name]

\* the label of a student in a grid cell: name, with the stage when set
StudentLabels(students, ids) ==
    LET known == SortedIds({id \in ids : DictHas(students, id)})
    IN [i \in 1..Len(known) |->
           LET student == DictGet(students, known[i])
           IN IF IsNone(student.stage) \/ Value(student.stage) = <<>>
              THEN student.name
              ELSE student.name \o <<" ", "(">> \o Capitalize(Value(student.stage))
                      \o <<")">>]

\* "\n".join(lines) for the Assignment shown in a cell
CellText(assignment, students, adults) ==
    LET notes == assignment.workshop.notes
        adult_names == KnownNames(adults, assignment.adults)
        student_labels == StudentLabels(students, assignment.students)
    IN Join(<<"\n">>,
            <<assignment.workshop.name>>
            \o (IF IsNone(notes) \/ Value(notes) = <<>> THEN <<>>
                ELSE << <<"N", "o", "t", "e", "s", ":", " ">> \o Value(notes) >>)
            \o (IF adult_names = <<>> THEN <<>>
                ELSE << <<"A", "d", "u", "l", "t", "s", ":", " ">>
                          \o Join(<<",", " ">>, adult_names) >>)
            \o (IF student_labels = <<>> THEN <<>>
                ELSE << <<"A", "l", "u", "m", "n", "e", "s", ":", " ">>
                          \o Join(<<",", " ">>, student_labels) >>))

\* next((item for item in assignments.values()
\*       if item.workshop.space == space), None), then the cell's text
GridCell(inner, space, students, adults) ==
    IF \E i \in 1..Len(inner) : inner[i].value.workshop.space = space
    THEN LET first == CHOOSE i \in 1..Len(inner) :
                          /\ inner[i].value.workshop.space = space
                          /\ \A j \in 1..(i - 1) : inner[j].value.workshop.space # space
         IN CellText(inner[first].value, students, adults)
    ELSE <<>>

Franja == <<"F", "r", "a", "n", "j", "a">>

\* row = {"Franja": timeslot}; row[space] = ... for each space
RECURSIVE GridRow(_, _, _, _, _)
GridRow(row, inner, spaces, students, adults) ==
    IF spaces = <<>> THEN row
    ELSE GridRow(DictSet(row, Head(spaces),
                         GridCell(inner, Head(spaces), students, adults)),
                 inner, Tail(spaces), students, adults)

\* a is the assignment map after the assignments_for_timeslot calls
build_schedule_grid_rows(a, students, adults, timeslots, spaces) ==
    [i \in 1..Len(timeslots) |->
        GridRow(DictSet(<<>>, Franja, timeslots[i]),
                DictGet(a, timeslots[i]), spaces, students, adults)]

\* the row of format_person_rows for one Assignment holding the person
PersonRow(timeslot, assignment, is_student, students, adults) ==
    [Franja |-> timeslot,
     Espai |-> assignment.workshop.space,
     Taller |-> assignment.workshop.name,
     Notes |-> IF IsNone(assignment.workshop.notes)
                  \/ Value(assignment.workshop.notes) = <<>>
               THEN None ELSE assignment.workshop.notes,
     Adults |-> IF is_student
                THEN Some(Join(<<",", " ">>, KnownNames(adults, assignment.adults)))
                ELSE None,
     Alumnes |-> IF is_student THEN None
                 ELSE Some(Join(<<",", " ">>, KnownNames(students, assignment.students)))]

\* the rows appended by the two loops, before the sort
RECURSIVE PersonRowsUnsorted(_, _, _, _, _, _)
PersonRowsUnsorted(a, timeslots, person_id, is_student, students, adults) ==
    IF timeslots = <<>> THEN <<>>
    ELSE LET inner == DictGet(a, Head(timeslots))
             held == SelectSeq(DictValues(inner),
                        LAMBDA assignment :
                            person_id \in (IF is_student THEN assignment.students
                                           ELSE assignment.adults))
         IN [i \in 1..Len(held) |->
                PersonRow(Head(timeslots), held[i], is_student, students, adults)]
            \o PersonRowsUnsorted(a, Tail(timeslots), person_id, is_student,
                                  students, adults)

\* rows.sort(key=lambda row: row["Franja"]): stable, on the label as str
RECURSIVE InsertByFranja(_, _)
InsertByFranja(sorted, row) ==
    IF sorted = <<>> THEN <<row>>
    ELSE IF StrLess(row.Franja, Head(sorted).Franja) THEN <<row>> \o sorted
    ELSE <<Head(sorted)>> \o InsertByFranja(Tail(sorted), row)

RECURSIVE SortByFranja(_, _)
SortByFranja(rows, sorted) ==
    IF rows = <<>> THEN sorted
    ELSE SortByFranja(Tail(rows), InsertByFranja(sorted, Head(rows)))

FormatPersonRows(a, timeslots, person_id, is_student, students, adults) ==
    SortByFranja(PersonRowsUnsorted(a, timeslots, person_id, is_student,
                                    students, adults), <<>>)

\* ---------------------------------------------------- views: inputs, steps
ViewWorkshopIds == {<<"w", "1">>, <<"w", "2">>, <<"w", "3">>}

ViewRow(id, timeslot, space, capacity_students, capacity_adults, notes) ==
    [id |-> id, name |-> <<"T">> \o id, space |-> space, timeslot |-> timeslot,
     capacity_students |-> capacity_students,
     capacity_adults |-> capacity_adults, notes |-> notes]

\* Rows of a tallers.csv with two spaces: a workshop with notes at B, one at
\* A in the same timeslot, one at A in a later timeslot whose label sorts
\* first as a string, and one that shares timeslot and space with the first.
ViewRows ==
    { ViewRow(<<"w", "1">>, DEFAULT_TIMESLOTS[1], <<"B">>, <<>>, <<"1">>, <<"n">>),
      ViewRow(<<"w", "2">>, DEFAULT_TIMESLOTS[1], <<"A">>, <<"1">>, <<"0">>, <<>>),
      ViewRow(<<"w", "3">>, DEFAULT_TIMESLOTS[3], <<"A">>, <<"1">>, <<"0">>, <<>>),
      ViewRow(<<"w", "2">>, DEFAULT_TIMESLOTS[1], <<"B">>, <<"1">>, <<"0">>, <<>>) }

ViewRowLists == UNION {[1..n -> ViewRows] : n \in 0..MaxWorkshops}

\* alumnes.csv and adults.csv as loaded by the app
AllStudents ==
    << Student(<<"p", "1">>, <<"Z", "o", "e">>, Some(<<"c", "i">>), None),
       Student(<<"p", "2">>, <<"A", "d", "a">>, None, None) >>
AllAdults ==
    << Adult(<<"p", "1">>, <<"T", "o", "m">>, None),
       Adult(<<"p", "2">>, <<"N", "i", "l">>, None) >>
students == Directory(AllStudents, <<>>)
adults == Directory(AllAdults, <<>>)

\* The directories as_rows is called with: complete ones, and ones that
\* lack a student or an adult.
DirectoryPairs ==
    { <<students, adults>>,
      <<Directory(Tail(AllStudents), <<>>), adults>>,
      <<students, Directory(Tail(AllAdults), <<>>)>> }

InitViews ==
    \E rows \in ViewRowLists :
        LET loaded == load_workshops(rows, SeqToSet(DEFAULT_TIMESLOTS))
        IN /\ ~loaded.raised
           /\ workshops_by_id = InitWorkshopsById(loaded.workshops, <<>>)
           /\ assignments = InitAssignments(loaded.workshops, <<>>)
           /\ last = Call("__init__", <<>>, <<>>, <<>>, "ok")
           /\ prev = <<>>
           /\ round_trip = NoRoundTrip
           /\ out = NoOutput

\* Schedule.as_rows(students=..., adults=...)
as_rows(student_directory, adult_directory) ==
    LET r == AsRows(assignments, student_directory, adult_directory)
    IN /\ out' = [op |-> "as_rows", students |-> student_directory,
                  adults |-> adult_directory, raised |-> r.raised, rows |-> r.rows]
       /\ last' = Call("as_rows", <<>>, <<>>, <<>>,
                       IF r.raised THEN NotFoundError ELSE "ok")
       /\ prev' = assignments
       /\ round_trip' = NoRoundTrip
       /\ UNCHANGED <<workshops_by_id, assignments>>

\* app.py, "Vista completa de la setmana": timeslot_options,
\* derive_space_order, build_schedule_grid_rows
schedule_grid ==
    LET timeslot_options == TimeslotOptions(workshops_by_id)
        a1 == TouchAll(assignments, timeslot_options)
        space_order == derive_space_order(workshops_by_id, a1, timeslot_options)
    IN /\ out' = [op |-> "schedule_grid", timeslots |-> timeslot_options,
                  spaces |-> space_order,
                  rows |-> build_schedule_grid_rows(a1, students, adults,
                                                    timeslot_options, space_order)]
       /\ assignments' = a1
       /\ last' = Call("schedule_grid", <<>>, <<>>, <<>>, "ok")
       /\ prev' = assignments
       /\ round_trip' = NoRoundTrip
       /\ UNCHANGED workshops_by_id

\* app.py, "Horaris individuals": format_person_rows for the selected person
format_person_rows(person_id, is_student) ==
    LET timeslot_options == TimeslotOptions(workshops_by_id)
        a1 == TouchAll(assignments, timeslot_options)
    IN /\ out' = [op |-> "format_person_rows", person_id |-> person_id,
                  is_student |-> is_student,
                  rows |-> FormatPersonRows(a1, timeslot_options, person_id,
                                            is_student, students, adults)]
       /\ assignments' = a1
       /\ last' = Call("format_person_rows", person_id, <<>>, <<>>, "ok")
       /\ prev' = assignments
       /\ round_trip' = NoRoundTrip
       /\ UNCHANGED workshops_by_id

NextViews ==
    \/ \E p \in PersonIds, t \in Timeslots, w \in ViewWorkshopIds : assign_student(p, t, w)
    \/ \E p \in PersonIds, t \in Timeslots, w \in ViewWorkshopIds : assign_adult(p, t, w)
    \/ \E d \in DirectoryPairs : as_rows(d[1], d[2])
    \/ schedule_grid
    \/ \E p \in PersonIds, s \in BOOLEAN : format_person_rows(p, s)

SpecViews == InitViews /\ [][NextViews]_vars

\* ------------------------------------------------------ assignment forms
\* workshops_in_slot: the catalog's workshops of the selected timeslot
WorkshopsInSlot(catalog, selected_timeslot) ==
    {catalog[i].key : i \in {j \in 1..Len(catalog) :
                                catalog[j].value.timeslot = selected_timeslot}}

\* available_students / available_adults: the people not yet placed in the
\* timeslot, and those of the selected Assignment
Available(a, directory, kind, selected_timeslot, selected_workshop_id) ==
    {p \in DictKeys(directory) :
        \/ ~(IF kind = "student"
             THEN IsStudentAssigned(a, p, selected_timeslot)
             ELSE IsAdultAssigned(a, p, selected_timeslot))
        \/ p \in (IF kind = "student"
                  THEN StudentsOf(a, selected_timeslot, selected_workshop_id)
                  ELSE AdultsOf(a, selected_timeslot, selected_workshop_id))}

\* what st.multiselect can return: the chosen options, in the order chosen
Selections(options) ==
    {s \in UNION {[1..n -> options] : n \in 0..Cardinality(options)} :
        \A i \in 1..Len(s), j \in 1..Len(s) : i # j => s[i] # s[j]}

\* the loop going on with the next person after one has failed
RECURSIVE AssignEach_keep_going(_, _, _, _, _, _)
AssignEach_keep_going(a, kind, selection, i, timeslot, workshop_id) ==
    IF i > Len(selection)
    THEN [result |-> "ok", failed_at |-> 0, assignments |-> a]
    ELSE LET r == IF kind = "student"
                  THEN AssignStudent(a, selection[i], timeslot, workshop_id)
                  ELSE AssignAdult(a, selection[i], timeslot, workshop_id)
             rest == AssignEach_keep_going(r.assignments, kind, selection, i + 1,
                                           timeslot, workshop_id)
         IN IF r.result = "ok" THEN rest
            ELSE [result |-> r.result, failed_at |-> i,
                  assignments |-> rest.assignments]

\* the for loop inside try: one assign per selected person, left at the
\* first exception; failed_at is the position of that person, 0 when the
\* loop ran to its end
RECURSIVE AssignEach(_, _, _, _, _, _)
AssignEach(a, kind, selection, i, timeslot, workshop_id) ==
    IF i > Len(selection)
    THEN [result |-> "ok", failed_at |-> 0, assignments |-> a]
    ELSE LET r == IF kind = "student"
                  THEN AssignStudent(a, selection[i], timeslot, workshop_id)
                  ELSE AssignAdult(a, selection[i], timeslot, workshop_id)
         IN IF r.result = "ok"
            THEN AssignEach(r.assignments, kind, selection, i + 1, timeslot, workshop_id)
            ELSE [result |-> r.result, failed_at |-> i, assignments |-> r.assignments]

\* st.success(...) after the loop, st.error(str(exc)) on ValueError; a
\* KeyError is not caught by the handler
Message(result) ==
    IF result = "ok" THEN "success"
    ELSE IF result \in {ConflictError, CapacityError} THEN "error"
    ELSE "uncaught"

\* the button of one of the two forms, pressed with a selection
AddPeople(kind, selected_timeslot, selected_workshop_id, selection) ==
    LET r == AssignEach(assignments, kind, selection, 1,
                        selected_timeslot, selected_workshop_id)
    IN /\ assignments' = r.assignments
       /\ out' = [op |-> IF kind = "student" THEN "add_students" ELSE "add_adults",
                  kind |-> kind,
                  timeslot |-> selected_timeslot,
                  workshop_id |-> selected_workshop_id,
                  selection |-> selection,
                  failed_at |-> r.failed_at,
                  message |-> Message(r.result)]
       /\ last' = Call(IF kind = "student" THEN "add_students" ELSE "add_adults",
                       <<>>, selected_timeslot, selected_workshop_id, r.result)
       /\ prev' = assignments
       /\ round_trip' = NoRoundTrip
       /\ UNCHANGED workshops_by_id

\* "Afegeix alumnes"
add_students ==
    \E selected_timeslot \in SeqToSet(TimeslotOptions(workshops_by_id)) :
      \E selected_workshop_id \in WorkshopsInSlot(workshops_by_id, selected_timeslot) :
        \E selected_students \in
              Selections(Available(assignments, students, "student",
                                   selected_timeslot, selected_workshop_id)) :
            AddPeople("student", selected_timeslot, selected_workshop_id,
                      selected_students)

\* "Afegeix adults"
add_adults ==
    \E selected_timeslot \in SeqToSet(TimeslotOptions(workshops_by_id)) :
      \E selected_workshop_id \in WorkshopsInSlot(workshops_by_id, selected_timeslot) :
        \E selected_adults \in
              Selections(Available(assignments, adults, "adult",
                                   selected_timeslot, selected_workshop_id)) :
            AddPeople("adult", selected_timeslot, selected_workshop_id,
                      selected_adults)

NextForms ==
    \/ add_students
    \/ add_adults

SpecForms == Init /\ [][NextForms]_vars

\* ------------------------------------------------------- loading the csvs
MaxCsvRows == 2

\* one row of alumnes.csv -> the Students appended for it (none when the
\* row is skipped); the emptiness test reads the cells as they are, the
\* record takes them stripped
LoadStudentRow(row) ==
    IF row.id = <<>> \/ row.name = <<>> THEN <<>>
    ELSE LET stage_raw == Strip(row.stage)
         IN << Student(Strip(row.id), Strip(row.name),
                       IF stage_raw # <<>>
                       THEN Some([i \in 1..Len(stage_raw) |-> Lower(stage_raw[i])])
                       ELSE None,
                       IF IsNone(row.group) \/ Value(row.group) = <<>>
                       THEN None ELSE row.group) >>

RECURSIVE load_students(_)
load_students(rows) ==
    IF rows = <<>> THEN <<>>
    ELSE LoadStudentRow(Head(rows)) \o load_students(Tail(rows))

\* one row of adults.csv
LoadAdultRow(row) ==
    IF row.id # <<>> /\ row.name # <<>>
    THEN << Adult(Strip(row.id), Strip(row.name),
                  IF IsNone(row.role) \/ Value(row.role) = <<>>
                  THEN None ELSE row.role) >>
    ELSE <<>>

RECURSIVE load_adults(_)
load_adults(rows) ==
    IF rows = <<>> THEN <<>>
    ELSE LoadAdultRow(Head(rows)) \o load_adults(Tail(rows))

\* Rows of an alumnes.csv: a complete one, one whose id is a blank, one
\* without id, one without name, and one whose name is a blank.
StudentCsvRows ==
    { [id |-> <<"p", "1">>, name |-> <<"A", "d", "a">>,
       stage |-> <<" ", "C", "I">>, group |-> Some(<<"A">>)],
      [id |-> <<" ">>, name |-> <<"Z", "o", "e">>, stage |-> <<>>, group |-> None],
      [id |-> <<>>, name |-> <<"Z", "o", "e">>, stage |-> <<>>, group |-> Some(<<>>)],
      [id |-> <<"p", "2">>, name |-> <<>>, stage |-> <<"c", "m">>, group |-> None],
      [id |-> <<"p", "2">>, name |-> <<" ">>, stage |-> <<" ">>, group |-> None] }

\* Rows of an adults.csv, likewise.
AdultCsvRows ==
    { [id |-> <<" ", "p", "1">>, name |-> <<"T", "o", "m", " ">>, role |-> Some(<<"t">>)],
      [id |-> <<"\t">>, name |-> <<"N", "i", "l">>, role |-> None],
      [id |-> <<>>, name |-> <<"N", "i", "l">>, role |-> Some(<<>>)],
      [id |-> <<"p", "2">>, name |-> <<>>, role |-> None],
      [id |-> <<"p", "2">>, name |-> <<" ", " ">>, role |-> None] }

\* Rows of a tallers.csv: a complete one, one without id, one without
\* name, one with a timeslot outside the configured set, one whose cells
\* carry blanks around their text, and one with a limit that is no number.
WorkshopCsvRows ==
    { ViewRow(<<"w", "1">>, DEFAULT_TIMESLOTS[1], <<"A">>, <<"1">>, <<>>, <<>>),
      [id |-> <<>>, name |-> <<"T", "w", "2">>, space |-> <<"A">>,
       timeslot |-> DEFAULT_TIMESLOTS[1], capacity_students |-> <<>>,
       capacity_adults |-> <<"1">>, notes |-> <<>>],
      [id |-> <<"w", "3">>, name |-> <<>>, space |-> <<"B">>,
       timeslot |-> DEFAULT_TIMESLOTS[3], capacity_students |-> <<>>,
       capacity_adults |-> <<>>, notes |-> <<"n">>],
      ViewRow(<<"w", "1">>, <<"9", ":", "0", "0">>, <<"A">>, <<>>, <<>>, <<>>),
      ViewRow(<<" ", "w", "2">>, <<" ">> \o DEFAULT_TIMESLOTS[3] \o <<" ">>,
              <<"B", " ">>, <<" ", "2">>, <<"0">>, <<>>),
      ViewRow(<<"w", "3">>, DEFAULT_TIMESLOTS[1], <<"A">>, <<"n">>, <<>>, <<>>) }

CsvFiles(rows) == UNION {[1..n -> rows] : n \in 0..MaxCsvRows}

\* the app before any file is read
InitLoad ==
    /\ workshops_by_id = <<>>
    /\ assignments = <<>>
    /\ last = Call("start", <<>>, <<>>, <<>>, "ok")
    /\ prev = <<>>
    /\ round_trip = NoRoundTrip
    /\ out = NoOutput

\* students = load_students(...)
LoadStudents ==
    \E rows \in CsvFiles(StudentCsvRows) :
        /\ out' = [op |-> "load_students", rows |-> rows, raised |-> FALSE,
                   records |-> load_students(rows)]
        /\ last' = Call("load_students", <<>>, <<>>, <<>>, "ok")
        /\ UNCHANGED <<workshops_by_id, assignments, prev, round_trip>>

\* adults = load_adults(...)
LoadAdults ==
    \E rows \in CsvFiles(AdultCsvRows) :
        /\ out' = [op |-> "load_adults", rows |-> rows, raised |-> FALSE,
                   records |-> load_adults(rows)]
        /\ last' = Call("load_adults", <<>>, <<>>, <<>>, "ok")
        /\ UNCHANGED <<workshops_by_id, assignments, prev, round_trip>>

\* workshops = load_workshops(..., valid_timeslots=DEFAULT_TIMESLOTS)
LoadWorkshops ==
    \E rows \in CsvFiles(WorkshopCsvRows) :
        LET r == load_workshops(rows, SeqToSet(DEFAULT_TIMESLOTS))
        IN /\ out' = [op |-> "load_workshops", rows |-> rows, raised |-> r.raised,
                      records |-> r.workshops]
           /\ last' = Call("load_workshops", <<>>, <<>>, <<>>,
                           IF r.raised THEN "DataLoaderError" ELSE "ok")
           /\ UNCHANGED <<workshops_by_id, assignments, prev, round_trip>>

NextLoad ==
    \/ LoadStudents
    \/ LoadAdults
    \/ LoadWorkshops

SpecLoad == InitLoad /\ [][NextLoad]_vars


\* ------------------------------------------------------------ properties
\* Words of the claims, read off the state before the call (prev) and the
\* call made (last).
KindOf(op) == IF op \in {"assign_student", "unassign_student"} THEN "student" ELSE "adult"
IsAssign(op) == op \in {"assign_student", "assign_adult"}
IsUnassign(op) == op \in {"unassign_student", "unassign_adult"}
BucketOf(a, kind, timeslot, workshop_id) ==
    IF kind = "student"
    THEN StudentsOf(a, timeslot, workshop_id)
    ELSE AdultsOf(a, timeslot, workshop_id)
LimitOf(a, kind, timeslot, workshop_id) ==
    IF kind = "student"
    THEN AssignmentAt(a, timeslot, workshop_id).workshop.capacity_students
    ELSE AssignmentAt(a, timeslot, workshop_id).workshop.capacity_adults
\* the person is in the bucket of some workshop of the timeslot
InTimeslot(a, kind, person, timeslot) ==
    \E e \in Entries(a) : e[1] = timeslot /\ person \in BucketOf(a, kind, e[1], e[2])
\* one more occupant would exceed the limit
Full(a, kind, timeslot, workshop_id) ==
    /\ ~IsNone(LimitOf(a, kind, timeslot, workshop_id))
    /\ Cardinality(BucketOf(a, kind, timeslot, workshop_id)) + 1 >
          Value(LimitOf(a, kind, timeslot, workshop_id))

\* C1: in every timeslot a person is in the student set of at most one
\* Assignment and in the adult set of at most one Assignment.
C1_OneWorkshopPerTimeslot ==
    \A t \in DictKeys(assignments), p \in PersonIds :
        /\ Cardinality({e \in Entries(assignments) :
                            e[1] = t /\ p \in StudentsOf(assignments, e[1], e[2])}) <= 1
        /\ Cardinality({e \in Entries(assignments) :
                            e[1] = t /\ p \in AdultsOf(assignments, e[1], e[2])}) <= 1

\* a student held by one workshop was just refused by another of the timeslot
C1_Witness ==
    /\ last.op = "assign_student"
    /\ last.result = ConflictError
    /\ \E e \in Entries(assignments) :
          /\ e[1] = last.timeslot
          /\ e[2] # last.workshop_id
          /\ last.person \in StudentsOf(assignments, e[1], e[2])
    /\ HasEntry(assignments, last.timeslot, last.workshop_id)

\* C2: every Assignment holds at most capacity_students students when that
\* limit is set, and at most capacity_adults adults, in every state from
\* construction on.
C2_CapacityInvariant ==
    \A e \in Entries(assignments) :
        LET cs == LimitOf(assignments, "student", e[1], e[2])
            ca == LimitOf(assignments, "adult", e[1], e[2])
        IN /\ ~IsNone(cs) => Cardinality(StudentsOf(assignments, e[1], e[2])) <= Value(cs)
           /\ ~IsNone(ca) => Cardinality(AdultsOf(assignments, e[1], e[2])) <= Value(ca)

\* C3: an assign_student or assign_adult call that fails leaves the student
\* set and the adult set of every Assignment as they were.
C3_FailedAssignChangesNothing ==
    (IsAssign(last.op) /\ last.result # "ok") =>
        Membership(assignments) = Membership(prev)

\* an adult was just refused by a workshop that is full
C3_Witness ==
    /\ last.op = "assign_adult"
    /\ last.result = CapacityError
    /\ AdultsOf(assignments, last.timeslot, last.workshop_id) # {}

\* C4: the checks run in the order existence, uniqueness, capacity: an
\* invalid pair gives NotFoundError whatever else holds, and a person
\* already placed in the timeslot gives ConflictError even when the target
\* workshop is full.
C4_CheckOrder ==
    IsAssign(last.op) =>
        LET k == KindOf(last.op)
            t == last.timeslot
            w == last.workshop_id
        IN /\ ~HasEntry(prev, t, w) => last.result = NotFoundError
           /\ (/\ HasEntry(prev, t, w)
               /\ InTimeslot(prev, k, last.person, t)
               /\ Full(prev, k, t, w)) => last.result = ConflictError

\* a student already placed in the timeslot was sent to a full workshop
C4_Witness ==
    /\ last.op = "assign_student"
    /\ HasEntry(prev, last.timeslot, last.workshop_id)
    /\ InTimeslot(prev, "student", last.person, last.timeslot)
    /\ Full(prev, "student", last.timeslot, last.workshop_id)
    /\ last.result = ConflictError

\* C5: assigning a person to the workshop that already holds them fails
\* with ConflictError and leaves the set as it was.
C5_ReassignRejected ==
    IsAssign(last.op) =>
        LET k == KindOf(last.op)
            t == last.timeslot
            w == last.workshop_id
        IN (HasEntry(prev, t, w) /\ last.person \in BucketOf(prev, k, t, w)) =>
              /\ last.result = ConflictError
              /\ BucketOf(assignments, k, t, w) = BucketOf(prev, k, t, w)

\* a student was sent again to their own workshop, which has room left
C5_Witness ==
    /\ last.op = "assign_student"
    /\ HasEntry(prev, last.timeslot, last.workshop_id)
    /\ last.person \in StudentsOf(prev, last.timeslot, last.workshop_id)
    /\ ~Full(prev, "student", last.timeslot, last.workshop_id)
    /\ last.result = ConflictError

\* C6: assign_student succeeds exactly when the workshop exists in the
\* timeslot, the student is in no student set of that timeslot and the
\* limit is unset or leaves room for one more; a success adds exactly the
\* student; a call that fails on capacity alone gives CapacityError.
C6_AssignStudentContract ==
    last.op = "assign_student" =>
        LET s == last.person
            t == last.timeslot
            w == last.workshop_id
            exists == HasEntry(prev, t, w)
            free == ~InTimeslot(prev, "student", s, t)
            room == exists /\ ~Full(prev, "student", t, w)
        IN /\ last.result = "ok" <=> (exists /\ free /\ room)
           /\ last.result = "ok" =>
                 /\ StudentsOf(assignments, t, w) = StudentsOf(prev, t, w) \cup {s}
                 /\ Cardinality(StudentsOf(assignments, t, w)) =
                       Cardinality(StudentsOf(prev, t, w)) + 1
           /\ (exists /\ free /\ ~room) => last.result = CapacityError

\* a student who holds a place in another timeslot was assigned
C6_Witness ==
    /\ last.op = "assign_student"
    /\ last.result = "ok"
    /\ \E e \in Entries(prev) :
          e[1] # last.timeslot /\ last.person \in StudentsOf(prev, e[1], e[2])

\* C7: a workshop whose adult capacity cell was blank never holds more
\* than one adult, and refuses every adult once it holds one.
C7_BlankAdultCapacityIsOne ==
    /\ \A e \in Entries(assignments) :
          IsNone(LimitOf(assignments, "adult", e[1], e[2])) =>
              Cardinality(AdultsOf(assignments, e[1], e[2])) <= 1
    /\ (/\ last.op = "assign_adult"
        /\ HasEntry(prev, last.timeslot, last.workshop_id)
        /\ IsNone(LimitOf(prev, "adult", last.timeslot, last.workshop_id))
        /\ AdultsOf(prev, last.timeslot, last.workshop_id) # {}) =>
            last.result # "ok"

\* C8: unassign_student and unassign_adult never raise; on a pair that does
\* not exist, or a person who is not in the set, nothing changes; otherwise
\* exactly that identifier leaves exactly that set.
C8_UnassignTolerant ==
    IsUnassign(last.op) =>
        LET k == KindOf(last.op)
            t == last.timeslot
            w == last.workshop_id
            hit(e) == e = <<t, w>>
        IN /\ last.result = "ok"
           /\ Membership(assignments) =
                 {<<e,
                    IF hit(e) /\ k = "student"
                    THEN StudentsOf(prev, e[1], e[2]) \ {last.person}
                    ELSE StudentsOf(prev, e[1], e[2]),
                    IF hit(e) /\ k = "adult"
                    THEN AdultsOf(prev, e[1], e[2]) \ {last.person}
                    ELSE AdultsOf(prev, e[1], e[2])>> : e \in Entries(prev)}

\* an adult was unassigned from a workshop id that exists only in another
\* timeslot, where the adult holds a place
C8_Witness ==
    /\ last.op = "unassign_adult"
    /\ ~HasEntry(prev, last.timeslot, last.workshop_id)
    /\ \E e \in Entries(prev) :
          e[2] = last.workshop_id /\ last.person \in AdultsOf(prev, e[1], e[2])
    /\ last.result = "ok"

\* C9, as claimed: an assign followed by the unassign of the same person
\* from the same workshop leaves the set as it was before the assign.
C9_RoundTrip ==
    round_trip.active =>
        BucketOf(assignments, KindOf(last.op), last.timeslot, last.workshop_id) =
            round_trip.before

\* C9, amended: the same, when the person was not in the set before the
\* assign.
C9_RoundTripWhenAbsent ==
    (round_trip.active /\ last.person \notin round_trip.before) =>
        BucketOf(assignments, KindOf(last.op), last.timeslot, last.workshop_id) =
            round_trip.before

\* a student joined a workshop that already held someone, and left again
C9_Witness ==
    /\ round_trip.active
    /\ last.op = "unassign_student"
    /\ round_trip.assign_result = "ok"
    /\ round_trip.before # {}

\* C10: there are as many Assignments as workshops in the catalog, and no
\* call adds or removes an Assignment or rebinds its workshop.
C10_OneAssignmentPerWorkshop ==
    /\ Cardinality(Entries(assignments)) = Len(workshops_by_id)
    /\ last.op # "__init__" => Binding(assignments) = Binding(prev)

\* C11: no workshop identifier keys an Assignment in more than one timeslot,
\* and every Assignment holds the workshop the catalog maps its identifier
\* to; a collection that repeats an identifier builds no Schedule.
C11_UniqueIdentifiers ==
    /\ \A e1 \in Entries(assignments), e2 \in Entries(assignments) :
          e1[2] = e2[2] => e1[1] = e2[1]
    /\ \A e \in Entries(assignments) :
          /\ DictHas(workshops_by_id, e[2])
          /\ AssignmentAt(assignments, e[1], e[2]).workshop =
                DictGet(workshops_by_id, e[2])

\* C12: is_student_assigned(s, t) is true exactly when s is in the student
\* set of some Assignment of timeslot t, whatever s holds in other
\* timeslots, and false for a timeslot without workshops; the same for
\* is_adult_assigned and the adult sets.
C12_IsAssignedExact ==
    /\ last.op = "is_student_assigned" =>
          (last.result = "True" <=>
              InTimeslot(prev, "student", last.person, last.timeslot))
    /\ last.op = "is_adult_assigned" =>
          (last.result = "True" <=>
              InTimeslot(prev, "adult", last.person, last.timeslot))
    /\ (last.op \in {"is_student_assigned", "is_adult_assigned"}
          /\ \A e \in Entries(prev) : e[1] # last.timeslot) =>
              last.result = "False"

\* a student placed in workshops of two timeslots was just found in one of
\* them
C12_Witness ==
    /\ last.op = "is_student_assigned"
    /\ last.result = "True"
    /\ \E e \in Entries(assignments) :
          /\ e[1] # last.timeslot
          /\ last.person \in StudentsOf(assignments, e[1], e[2])
          /\ \E f \in Entries(assignments) :
                /\ f[1] = last.timeslot
                /\ f[2] # e[2]
                /\ last.person \in StudentsOf(assignments, f[1], f[2])

\* C13: workshops, assignments_for_timeslot, get_assignment,
\* is_student_assigned and is_adult_assigned leave the whole state of the
\* Schedule as it was: the catalog, the timeslots present in the
\* assignment map and every Assignment.
C13_QueriesHaveNoSideEffect ==
    [][last'.op \in {"workshops", "assignments_for_timeslot", "get_assignment",
                     "is_student_assigned", "is_adult_assigned"} =>
          /\ workshops_by_id' = workshops_by_id
          /\ assignments' = assignments]_vars

\* C17: a successful assign or unassign changes nothing but the bucket of
\* its kind in the Assignment of its pair: the catalog, the Assignments and
\* their workshops, every bucket of the other kind and every other bucket
\* of its kind stay as they were; and an assign is refused for a conflict
\* only when the person is in a bucket of the same kind in that timeslot.
C17_OwnBucketOnly ==
    [][LET c == last'
           k == KindOf(c.op)
       IN /\ ((IsAssign(c.op) \/ IsUnassign(c.op)) /\ c.result = "ok") =>
                /\ workshops_by_id' = workshops_by_id
                /\ Binding(assignments') = Binding(assignments)
                /\ \A e \in Entries(assignments) :
                      /\ k = "student" =>
                            AdultsOf(assignments', e[1], e[2]) =
                               AdultsOf(assignments, e[1], e[2])
                      /\ k = "adult" =>
                            StudentsOf(assignments', e[1], e[2]) =
                               StudentsOf(assignments, e[1], e[2])
                      /\ e # <<c.timeslot, c.workshop_id>> =>
                            BucketOf(assignments', k, e[1], e[2]) =
                               BucketOf(assignments, k, e[1], e[2])
          /\ (IsAssign(c.op) /\ c.result = ConflictError) =>
                InTimeslot(assignments, k, c.person, c.timeslot)]_vars

\* an adult joined a workshop of a timeslot in which the same identifier
\* holds a place as a student
C17_Witness ==
    /\ last.op = "assign_adult"
    /\ last.result = "ok"
    /\ InTimeslot(prev, "student", last.person, last.timeslot)
    /\ last.person \in AdultsOf(assignments, last.timeslot, last.workshop_id)

\* text.split("\n")
RECURSIVE Lines(_, _)
Lines(text, line) ==
    IF text = <<>> THEN <<line>>
    ELSE IF Head(text) = "\n" THEN <<line>> \o Lines(Tail(text), <<>>)
    ELSE Lines(Tail(text), Append(line, Head(text)))

\* the row as_rows owes to the Assignment of a pair: its labels, and the
\* notes or the empty string
RowFor(rows, a, e) ==
    {i \in 1..Len(rows) :
        /\ rows[i].Franja = e[1]
        /\ rows[i].Espai = AssignmentAt(a, e[1], e[2]).workshop.space
        /\ rows[i].Taller = AssignmentAt(a, e[1], e[2]).workshop.name
        /\ rows[i].Notes = IF IsNone(AssignmentAt(a, e[1], e[2]).workshop.notes)
                           THEN <<>>
                           ELSE Value(AssignmentAt(a, e[1], e[2]).workshop.notes)}

\* what C14 says of the rows as_rows returned
RowsPerPair(rows, a) ==
    /\ Len(rows) = Cardinality(Entries(a))
    /\ \A e \in Entries(a) :
          /\ RowFor(rows, a, e) # {}
          /\ (StudentsOf(a, e[1], e[2]) = {} /\ AdultsOf(a, e[1], e[2]) = {}) =>
                \E i \in RowFor(rows, a, e) :
                    rows[i].Alumnes = <<>> /\ rows[i].Adults = <<>>
    /\ \A i \in 1..Len(rows), j \in 1..Len(rows) :
          i < j => ~RowKeyLess(rows[j], rows[i])

\* C14: in any state the rows as_rows returns are exactly one per
\* (timeslot, workshop) pair, ordered by (timeslot label, space label) as
\* strings; the row of a workshop without assignees has empty student and
\* adult name strings, and Notes is the workshop's notes or the empty
\* string.
C14_OneRowPerPair ==
    (out.op = "as_rows" /\ ~out.raised) => RowsPerPair(out.rows, assignments)

\* as_rows returned the rows of two or more workshops, one of them holding
\* two students, with another row first than the loops produced first
C14_Witness ==
    /\ out.op = "as_rows" /\ ~out.raised
    /\ Len(out.rows) >= 2
    /\ \E e \in Entries(assignments) : Cardinality(StudentsOf(assignments, e[1], e[2])) = 2
    /\ Flatten(assignments)[1].timeslot # out.rows[1].Franja

\* C15: as_rows never fails because of the directories: an assigned
\* identifier the directory lacks is left out of the joined names of its
\* row, and the other names and all the rows are produced.
C15_AbsentIdSkipped ==
    out.op = "as_rows" =>
        /\ ~out.raised
        /\ Len(out.rows) = Cardinality(Entries(assignments))
        /\ \A e \in Entries(assignments) :
              \E i \in RowFor(out.rows, assignments, e) :
                  /\ out.rows[i].Alumnes =
                        Join(<<",", " ">>,
                             KnownNames(out.students, StudentsOf(assignments, e[1], e[2])))
                  /\ out.rows[i].Adults =
                        Join(<<",", " ">>,
                             KnownNames(out.adults, AdultsOf(assignments, e[1], e[2])))

\* the Assignments of a timeslot at a space
AtSpace(a, timeslot, space) ==
    {e \in Entries(a) :
        e[1] = timeslot /\ AssignmentAt(a, e[1], e[2]).workshop.space = space}

\* C18: the grid shows every workshop: the cell of a listed timeslot and
\* space carries every workshop scheduled there, named on a line of its
\* own, and is empty only when there is none; and every workshop's
\* timeslot and space are listed.
C18_GridShowsEveryWorkshop ==
    out.op = "schedule_grid" =>
        /\ \A i \in 1..Len(out.rows), sp \in SeqToSet(out.spaces) :
              LET t == DictGet(out.rows[i], Franja)
                  cell == DictGet(out.rows[i], sp)
              IN /\ cell = <<>> <=> AtSpace(assignments, t, sp) = {}
                 /\ \A e \in AtSpace(assignments, t, sp) :
                       AssignmentAt(assignments, e[1], e[2]).workshop.name
                          \in SeqToSet(Lines(cell, <<>>))
        /\ \A e \in Entries(assignments) :
              /\ e[1] \in SeqToSet(out.timeslots)
              /\ AssignmentAt(assignments, e[1], e[2]).workshop.space
                    \in SeqToSet(out.spaces)

\* the timeslots in which the person occupies a workshop
HeldTimeslots(a, kind, person) ==
    {t \in DictKeys(a) : InTimeslot(a, kind, person, t)}

\* C19: a person's timetable has one row for each timeslot in which the
\* person occupies a workshop and none for other timeslots, and a row for
\* an earlier timeslot of the day never follows a row for a later one.
C19_TimetableByTimeslot ==
    out.op = "format_person_rows" =>
        LET kind == IF out.is_student THEN "student" ELSE "adult"
            held == HeldTimeslots(assignments, kind, out.person_id)
        IN /\ {out.rows[i].Franja : i \in 1..Len(out.rows)} = held
           /\ Len(out.rows) = Cardinality(held)
           /\ \A i \in 1..Len(out.rows), j \in 1..Len(out.rows) :
                 i < j => TimeslotIndex(out.rows[i].Franja) <=
                             TimeslotIndex(out.rows[j].Franja)

\* the people of a selection before position n
Before(selection, n) == {selection[i] : i \in 1..(n - 1)}

\* what C20 says of the target bucket and of the message: the people before
\* the first failing one are in the bucket, nobody else was added, and the
\* form reports the error exactly when somebody failed
StopsAtFirstFailure ==
    LET target == BucketOf(assignments, out.kind, out.timeslot, out.workshop_id)
        before == BucketOf(prev, out.kind, out.timeslot, out.workshop_id)
        applied == IF out.failed_at = 0
                   THEN SeqToSet(out.selection)
                   ELSE Before(out.selection, out.failed_at)
    IN /\ applied \subseteq target
       /\ target \ before \subseteq applied
       /\ out.failed_at = 0 => out.message = "success"
       /\ out.failed_at > 0 => out.message = "error"

\* nobody is in two student sets, or two adult sets, of one timeslot
UniqueInTimeslot(a) ==
    \A e1 \in Entries(a), e2 \in Entries(a) :
        (e1[1] = e2[1] /\ e1 # e2) =>
            /\ StudentsOf(a, e1[1], e1[2]) \cap StudentsOf(a, e2[1], e2[2]) = {}
            /\ AdultsOf(a, e1[1], e1[2]) \cap AdultsOf(a, e2[1], e2[2]) = {}

\* no Assignment holds more people than a limit that is set
WithinCapacity(a) ==
    \A e \in Entries(a) :
        /\ ~IsNone(LimitOf(a, "student", e[1], e[2])) =>
              Cardinality(StudentsOf(a, e[1], e[2])) <=
                  Value(LimitOf(a, "student", e[1], e[2]))
        /\ ~IsNone(LimitOf(a, "adult", e[1], e[2])) =>
              Cardinality(AdultsOf(a, e[1], e[2])) <=
                  Value(LimitOf(a, "adult", e[1], e[2]))

C16_LoadedRecordsComplete ==
    (out.op \in {"load_students", "load_adults", "load_workshops"} /\ ~out.raised) =>
        \A i \in 1..Len(out.records) :
            /\ out.records[i].identifier # <<>>
            /\ out.records[i].name # <<>>
            /\ out.op = "load_workshops" =>
                  out.records[i].timeslot \in SeqToSet(DEFAULT_TIMESLOTS)

\* C16, the part about timeslots: a Workshop returned by load_workshops
\* has a timeslot of the configured set, and load_students and
\* load_adults return nothing for a row whose id or name cell is empty.
C16_TimeslotsValidAndEmptyCellsSkipped ==
    /\ (out.op = "load_workshops" /\ ~out.raised) =>
          \A i \in 1..Len(out.records) :
              out.records[i].timeslot \in SeqToSet(DEFAULT_TIMESLOTS)
    /\ out.op \in {"load_students", "load_adults"} =>
          Len(out.records) =
             Cardinality({i \in 1..Len(out.rows) :
                             out.rows[i].id # <<>> /\ out.rows[i].name # <<>>})

=============================================================================
